---- MODULE Spec2Model ----
(***************************************************************************)
(* Batch orchestrator of run_transformer_batch_prediction.py: main(args).  *)
(*                                                                         *)
(* The model starts after the start-up part of main (lines 32-54: label    *)
(* vocabulary, tokenizer, config and model loaded) and follows the         *)
(* per-file loop of lines 57-79 and the formatting pass of lines 81-90.    *)
(*                                                                         *)
(* Lines 69-72 are read as the body of `if args.use_bio:` (line 68), the   *)
(* only block structure under which the `else:` of line 73 pairs with      *)
(* that `if`.                                                              *)
(*                                                                         *)
(* A file name is the sequence of its dot-separated parts:                 *)
(* "a.b.txt" is <<"a", "b", "txt">>.  A directory path is a record         *)
(* [segs, tail]: the dot-separated parts of its last component and a       *)
(* text appended to it; the parent directory is the same for all.          *)
(***************************************************************************)
EXTENDS Integers, Sequences, FiniteSets, TLC

\* ---------------------------------------------------------------- bounds
\* Largest number of entries of preprocessed_text_dir.
MaxFiles == 2

\* ---------------------------------------------------------------- inputs
\* Names that glob("*.txt") matches, among them names with several dots.
TxtNames == {<<"a", "txt">>, <<"b", "txt">>, <<"a", "b", "txt">>, <<"a", "c", "txt">>}

\* A directory entry that glob("*.txt") does not match.
OtherNames == {<<"a", "json">>}

AllNames == TxtNames \cup OtherNames

\* No file: the value of a local that is not bound yet, of a dict key that is
\* absent, of an optional argument that was not given (None).
NoFile == <<>>

\* Number of sentences of an input file (its content is an input of the run).
NumSents(n) == Len(n)

\* Values of --output_dir (last path component).
OutputDirs == {<<"out">>, <<"out", "v1">>}

\* The empty string.
EmptyStr == <<"">>

\* Values of --output_dir_brat: not given (None), the empty string, or a
\* directory.
OutputDirsBrat == {NoFile, EmptyStr, <<"brat">>}

\* Values of --do_format: 0 = none, 1 = brat, 2 = bioc.
DoFormats == {0, 1, 2}

\* ---------------------------------------------------------------- state
VARIABLES
    args,                 \* the args namespace: use_bio, do_format, output_dir,
                          \* output_dir_brat, predict_output_file
    inputs,               \* entries of preprocessed_text_dir
    status,               \* per globbed file: PENDING, PROCESSING, DONE, FAILED
    visited,              \* files in the order the loop took them
    pc,                   \* position of main
    each_file,            \* loop variable
    test_example,         \* local: the file whose examples it holds
    test_features,        \* local: the file whose features it holds
    predictions,          \* local: the file whose predictions it holds
    labeled_bio_tup_lst,  \* defaultdict(dict): filename -> {sents, raw_text}
    disk,                 \* BIO files under output_dir: path -> content
    dirs,                 \* directories mkdir was called on
    log,                  \* args.logger.error records
    fmtCalls              \* calls of format_converter

vars == <<args, inputs, status, visited, pc, each_file, test_example, test_features,
          predictions, labeled_bio_tup_lst, disk, dirs, log, fmtCalls>>

\* ---------------------------------------------------------------- paths
\* Path(dir).glob("*.txt"): the entries whose last part is "txt".
Glob(dir) == {n \in dir : n[Len(n)] = "txt"}

\* Path.stem: the name without its last suffix.
Stem(n) == IF Len(n) > 1 THEN SubSeq(n, 1, Len(n) - 1) ELSE n

\* each_file.stem.split(".")[0] + ".bio.txt"
Ofn(n) == <<Stem(n)[1], "bio", "txt">>

\* The output name <stem>.bio.txt of the file-format description.
StemBioName(n) == Stem(n) \o <<"bio", "txt">>

BioPaths == {Ofn(n) : n \in TxtNames} \cup {StemBioName(n) : n \in TxtNames}

\* A directory path.
Dir(segs, tail) == [segs |-> segs, tail |-> tail]

\* Truth value of an optional string: None and "" are false.
Truthy(x) == x \notin {NoFile, EmptyStr}

\* FormattedDir with --output_dir_brat ignored.
FormattedDirDerivedOnly(a) == Dir(Stem(a.output_dir), "_formatted_output")

\* Path(args.output_dir_brat) if args.output_dir_brat else
\* Path(args.output_dir).parent / "{}_formatted_output".format(Path(args.output_dir).stem)
FormattedDir(a) ==
    IF Truthy(a.output_dir_brat)
    THEN Dir(a.output_dir_brat, "")
    ELSE Dir(Stem(a.output_dir), "_formatted_output")

\* ---------------------------------------------------------------- values
\* An unbound local (test_example, test_features, predictions).
NoData == [file |-> NoFile, nsents |-> 0]

\* No labeled sentences; an absent BIO file.
NoContent == [tokens |-> NoFile, labels |-> NoFile, written |-> 0]

\* An absent key of labeled_bio_tup_lst.  An entry is a dict: `present` says
\* that the key exists, and a field that was never assigned is NoContent
\* ('sents') or NoFile ('raw_text').
NoEntry == [present |-> FALSE, sents |-> NoContent, raw_text |-> NoFile]

\* os.path.join(args.output_dir, ofn)
PathJoin(dir, name) == [dir |-> dir, name |-> name]

\* ------------------------------------------------------- collaborators
\* ner_data_processor.get_test_examples(file_name=..., use_bio=...): the
\* sentences of one input file.
GetTestExamples(n) == [file |-> n, nsents |-> NumSents(n)]

\* transformer_convert_data_to_features: one fixed-length record per sentence.
ConvertDataToFeatures(ex) == [file |-> ex.file, nsents |-> ex.nsents]

\* predict(args, model, features): one prediction per sentence.
Predict(feat) == [file |-> feat.file, nsents |-> feat.nsents]

\* The labeled sentences _output_bio builds from the examples and predictions.
LabeledSents(ex, pred) == [tokens |-> ex.file, labels |-> pred.file, written |-> ex.nsents]

\* OutputBioSave with a writer that fails after writing part of the file.
OutputBioSavePartial(d, path, ex, pred, ok) ==
    [d EXCEPT ![path.name] =
        IF ok THEN LabeledSents(ex, pred)
        ELSE [LabeledSents(ex, pred) EXCEPT !.written = @ - 1]]

\* _output_bio(args, examples, predictions): writes the labeled sentences to
\* args.predict_output_file.  The writer completes the file or, when it
\* fails (ok = FALSE), leaves the disk as it was.
OutputBioSave(d, path, ex, pred, ok) ==
    IF ok THEN [d EXCEPT ![path.name] = LabeledSents(ex, pred)] ELSE d

\* _output_bio(..., save_bio=False): returns the labeled sentences.
OutputBioReturn(ex, pred) == LabeledSents(ex, pred)

Init ==
    /\ args \in [use_bio : BOOLEAN, do_format : DoFormats, output_dir : OutputDirs,
                 output_dir_brat : OutputDirsBrat, raw_text_dir : {<<"raw">>},
                 predict_output_file : {PathJoin(NoFile, NoFile)}]
    /\ inputs \in {d \in SUBSET AllNames : Cardinality(d) <= MaxFiles}
    /\ status = [n \in Glob(inputs) |-> "PENDING"]
    /\ visited = <<>>
    /\ pc = "for"
    /\ each_file = NoFile
    /\ test_example = NoData
    /\ test_features = NoData
    /\ predictions = NoData
    /\ labeled_bio_tup_lst = [n \in TxtNames |-> NoEntry]
    /\ disk = [p \in BioPaths |-> NoContent]
    /\ dirs = {}
    /\ log = <<>>
    /\ fmtCalls = <<>>

Pending == {n \in DOMAIN status : status[n] = "PENDING"}

\* for i, each_file in enumerate(Path(...).glob("*.txt")): the next file, in
\* the order the directory yields them, or the end of the loop.
ForNext ==
    /\ pc = "for"
    /\ Pending # {}
    /\ \E n \in Pending :
        /\ each_file' = n
        /\ status' = [status EXCEPT ![n] = "PROCESSING"]
        /\ visited' = Append(visited, n)
    /\ pc' = "get_test_examples"
    /\ UNCHANGED <<args, inputs, test_example, test_features, predictions,
                   labeled_bio_tup_lst, disk, dirs, log, fmtCalls>>

ForEnd ==
    /\ pc = "for"
    /\ Pending = {}
    /\ pc' = "format"
    /\ UNCHANGED <<args, inputs, status, visited, each_file, test_example, test_features,
                   predictions, labeled_bio_tup_lst, disk, dirs, log, fmtCalls>>

\* Line 60.  The call returns, or raises (malformed file).
GetExamples ==
    /\ pc = "get_test_examples"
    /\ \E ok \in BOOLEAN :
        IF ok
        THEN /\ test_example' = GetTestExamples(each_file)
             /\ pc' = "convert"
        ELSE /\ test_example' = test_example
             /\ pc' = "except"
    /\ UNCHANGED <<args, inputs, status, visited, each_file, test_features, predictions,
                   labeled_bio_tup_lst, disk, dirs, log, fmtCalls>>

\* Lines 61-65.
Convert ==
    /\ pc = "convert"
    /\ \E ok \in BOOLEAN :
        IF ok
        THEN /\ test_features' = ConvertDataToFeatures(test_example)
             /\ pc' = "predict"
        ELSE /\ test_features' = test_features
             /\ pc' = "except"
    /\ UNCHANGED <<args, inputs, status, visited, each_file, test_example, predictions,
                   labeled_bio_tup_lst, disk, dirs, log, fmtCalls>>

\* Line 66.
RunPredict ==
    /\ pc = "predict"
    /\ \E ok \in BOOLEAN :
        IF ok
        THEN /\ predictions' = Predict(test_features)
             /\ pc' = "output"
        ELSE /\ predictions' = predictions
             /\ pc' = "except"
    /\ UNCHANGED <<args, inputs, status, visited, each_file, test_example, test_features,
                   labeled_bio_tup_lst, disk, dirs, log, fmtCalls>>

\* SetPredictOutputFile with the path set for the first file only.
SetPredictOutputFileOnce(a, n) ==
    IF a.predict_output_file = PathJoin(NoFile, NoFile)
    THEN [a EXCEPT !.predict_output_file = PathJoin(a.output_dir, Ofn(n))]
    ELSE a

\* Line 71: args.predict_output_file = os.path.join(args.output_dir, ofn)
SetPredictOutputFile(a, n) ==
    [a EXCEPT !.predict_output_file = PathJoin(a.output_dir, Ofn(n))]

\* Lines 68-72, use_bio: mkdir of output_dir, the output path, the writer.
\* mkdir may raise; the writer may raise; otherwise the try body is over.
OutputBioFile ==
    /\ pc = "output"
    /\ args.use_bio
    /\ \E outcome \in {"ok", "mkdir_raises", "writer_raises"} :
        IF outcome = "mkdir_raises"
        THEN /\ pc' = "except"
             /\ UNCHANGED <<args, dirs, disk, status>>
        ELSE /\ dirs' = dirs \cup {Dir(args.output_dir, "")}
             /\ args' = SetPredictOutputFile(args, each_file)
             /\ disk' = OutputBioSave(disk, args'.predict_output_file, test_example,
                                      predictions, outcome = "ok")
             /\ IF outcome = "ok"
                THEN /\ status' = [status EXCEPT ![each_file] = "DONE"]
                     /\ pc' = "for"
                ELSE /\ status' = status
                     /\ pc' = "except"
    /\ UNCHANGED <<inputs, visited, each_file, test_example, test_features, predictions,
                   labeled_bio_tup_lst, log, fmtCalls>>

\* Line 74: labeled_bio_tup_lst[each_file.name]['sents'] = _output_bio(...).
\* The right-hand side is evaluated first: when it raises, the key is not
\* created.
StoreSents(m, n, sents) == [m EXCEPT ![n] = [@ EXCEPT !.present = TRUE, !.sents = sents]]

OutputInMemory ==
    /\ pc = "output"
    /\ ~args.use_bio
    /\ \E ok \in BOOLEAN :
        IF ok
        THEN /\ labeled_bio_tup_lst' =
                    StoreSents(labeled_bio_tup_lst, each_file,
                               OutputBioReturn(test_example, predictions))
             /\ pc' = "raw_text"
        ELSE /\ labeled_bio_tup_lst' = labeled_bio_tup_lst
             /\ pc' = "except"
    /\ UNCHANGED <<args, inputs, status, visited, each_file, test_example, test_features,
                   predictions, disk, dirs, log, fmtCalls>>

\* Lines 75-76: the file is opened and read again for its raw text; open or
\* read may raise, after 'sents' was stored.
StoreRawText(m, n) == [m EXCEPT ![n] = [@ EXCEPT !.present = TRUE, !.raw_text = n]]

ReadRawText ==
    /\ pc = "raw_text"
    /\ \E ok \in BOOLEAN :
        IF ok
        THEN /\ labeled_bio_tup_lst' = StoreRawText(labeled_bio_tup_lst, each_file)
             /\ status' = [status EXCEPT ![each_file] = "DONE"]
             /\ pc' = "for"
        ELSE /\ labeled_bio_tup_lst' = labeled_bio_tup_lst
             /\ status' = status
             /\ pc' = "except"
    /\ UNCHANGED <<args, inputs, visited, each_file, test_example, test_features,
                   predictions, disk, dirs, log, fmtCalls>>

\* Lines 77-79: the handler logs the file name, then the traceback, and the
\* loop goes on.
ErrorRecords(n) == <<[line |-> 78, names |-> n], [line |-> 79, names |-> NoFile]>>

\* Except with the error leaving the loop: the run ends at the first failure.
ExceptAborts ==
    /\ pc = "except"
    /\ log' = log \o ErrorRecords(each_file)
    /\ status' = [status EXCEPT ![each_file] = "FAILED"]
    /\ pc' = "done"
    /\ UNCHANGED <<args, inputs, visited, each_file, test_example, test_features,
                   predictions, labeled_bio_tup_lst, disk, dirs, fmtCalls>>

Except ==
    /\ pc = "except"
    /\ log' = log \o ErrorRecords(each_file)
    /\ status' = [status EXCEPT ![each_file] = "FAILED"]
    /\ pc' = "for"
    /\ UNCHANGED <<args, inputs, visited, each_file, test_example, test_features,
                   predictions, labeled_bio_tup_lst, disk, dirs, fmtCalls>>

\* Lines 84-90: the arguments format_converter is called with.
FormatCall(a, m) ==
    [text_dir |-> Dir(a.raw_text_dir, ""),
     input_bio_dir |-> IF a.use_bio THEN Dir(a.output_dir, "") ELSE Dir(a.raw_text_dir, ""),
     output_dir |-> FormattedDir(a),
     formatter |-> a.do_format,
     labeled_bio_tup_lst |-> m,
     use_bio |-> a.use_bio]

\* Lines 81-90.
Format ==
    /\ pc = "format"
    /\ IF args.do_format # 0
       THEN /\ dirs' = dirs \cup {FormattedDir(args)}
            /\ fmtCalls' = Append(fmtCalls, FormatCall(args, labeled_bio_tup_lst))
       ELSE UNCHANGED <<dirs, fmtCalls>>
    /\ pc' = "done"
    /\ UNCHANGED <<args, inputs, status, visited, each_file, test_example, test_features,
                   predictions, labeled_bio_tup_lst, disk, log>>

Next ==
    \/ ForNext
    \/ ForEnd
    \/ GetExamples
    \/ Convert
    \/ RunPredict
    \/ OutputBioFile
    \/ OutputInMemory
    \/ ReadRawText
    \/ Except
    \/ Format

Spec == Init /\ [][Next]_vars

\* The loop is sequential and every call returns or raises, so a step that
\* can be taken is taken.
FairSpec == Spec /\ WF_vars(Next)
\* ---------------------------------------------------------------- claims
Files == DOMAIN status

Terminal(n) == status[n] \in {"DONE", "FAILED"}

Done == {n \in Files : status[n] = "DONE"}

Failed == {n \in Files : status[n] = "FAILED"}

\* The BIO files that exist in output_dir.
BioFiles == {p \in BioPaths : disk[p] # NoContent}

\* The keys of the in-memory result map.
Keys == {n \in TxtNames : labeled_bio_tup_lst[n].present}

\* Some file failed and a file taken after it ended DONE.
DoneAfterFailed ==
    \E i, j \in 1..Len(visited) :
        i < j /\ status[visited[i]] = "FAILED" /\ status[visited[j]] = "DONE"

\* C1: every globbed file moves PENDING -> PROCESSING -> DONE or FAILED and
\* makes no other move, each is taken once, the loop is left only when every
\* file is DONE or FAILED, and the run reaches its end with every file DONE
\* or FAILED, whichever files raise.
C1_Lifecycle ==
    /\ [][\A n \in Files :
            status'[n] # status[n] =>
                <<status[n], status'[n]>> \in
                    {<<"PENDING", "PROCESSING">>, <<"PROCESSING", "DONE">>,
                     <<"PROCESSING", "FAILED">>}]_vars
    /\ [](Files = Glob(inputs))
    /\ [](pc \in {"format", "done"} =>
            /\ \A n \in Files : Terminal(n)
            /\ Len(visited) = Cardinality(Files)
            /\ {visited[i] : i \in 1..Len(visited)} = Files)
    /\ <>(pc = "done" /\ \A n \in Files : Terminal(n))

C1_Witness == pc = "done" /\ DoneAfterFailed

\* The error records that name a file (line 78).
NamingRecords == {i \in 1..Len(log) : log[i].line = 78}

\* C2: at the end of a run with n files of which k failed there are n-k
\* outputs (BIO files when use_bio, entries of the result map otherwise),
\* one per file that did not fail, and k logged errors, one naming each
\* failed file; a failed file is taken once and has no output.
C2_FaultIsolation ==
    pc = "done" =>
        /\ Cardinality(IF args.use_bio THEN BioFiles ELSE Keys)
              = Cardinality(Files) - Cardinality(Failed)
        /\ Cardinality(NamingRecords) = Cardinality(Failed)
        /\ {log[i].names : i \in NamingRecords} = Failed
        /\ \A n \in Failed :
              /\ Cardinality({i \in 1..Len(visited) : visited[i] = n}) = 1
              /\ ~args.use_bio => ~labeled_bio_tup_lst[n].present

\* C3: with use_bio every DONE file has its BIO file <stem>.bio.txt and the
\* result map is empty; without use_bio every DONE file has its entry in the
\* result map, no BIO file exists and output_dir was not created.
C3_SinkSelection ==
    /\ args.use_bio =>
          /\ \A n \in Done : disk[StemBioName(n)] # NoContent
          /\ Keys = {}
    /\ ~args.use_bio =>
          /\ \A n \in Done : n \in Keys
          /\ BioFiles = {}
          /\ Dir(args.output_dir, "") \notin dirs

ConverterCalls ==
    /\ Len(fmtCalls) <= 1
    /\ fmtCalls # <<>> => \A n \in Files : Terminal(n)
    /\ pc = "done" => (Len(fmtCalls) = 1 <=> args.do_format # 0)
    /\ fmtCalls # <<>> =>
          /\ args.do_format # 0
          /\ fmtCalls[1].formatter = args.do_format
          /\ args.use_bio => fmtCalls[1].input_bio_dir = Dir(args.output_dir, "")
          /\ ~args.use_bio => fmtCalls[1].labeled_bio_tup_lst = labeled_bio_tup_lst

\* C6 as stated: the converter's output directory is output_dir_brat when
\* given (a non-empty value) and <output_dir>_formatted_output otherwise.
C6_Original ==
    /\ ConverterCalls
    /\ fmtCalls # <<>> =>
          fmtCalls[1].output_dir =
              IF args.output_dir_brat \notin {NoFile, EmptyStr}
              THEN Dir(args.output_dir_brat, "")
              ELSE Dir(args.output_dir, "_formatted_output")

\* C6 as amended: the converter's output directory is output_dir_brat when
\* that is a non-empty string, and otherwise the name of output_dir without
\* its last dot-suffix, followed by _formatted_output.
C6_FormatConverter ==
    /\ ConverterCalls
    /\ fmtCalls # <<>> =>
          LET od == args.output_dir
              base == IF Len(od) = 1 THEN od ELSE [i \in 1..(Len(od) - 1) |-> od[i]]
          IN  fmtCalls[1].output_dir =
                  IF args.output_dir_brat \in {NoFile, EmptyStr}
                  THEN [segs |-> base, tail |-> "_formatted_output"]
                  ELSE [segs |-> args.output_dir_brat, tail |-> ""]

\* The converter was called with a derived directory for a dotted output_dir,
\* and in another run with the directory given.
C6_Witness ==
    /\ pc = "done"
    /\ Len(fmtCalls) = 1
    /\ Files # {}
    /\ \/ args.output_dir_brat = NoFile /\ args.output_dir = <<"out", "v1">>
       \/ args.output_dir_brat = <<"brat">> /\ ~args.use_bio /\ Keys # {}

\* The labeled sentences of file n alone.
SentsOf(n) == [tokens |-> n, labels |-> n, written |-> NumSents(n)]

C9_CompleteEntries ==
    ~args.use_bio =>
        /\ \A n \in Files :
              (Terminal(n) /\ labeled_bio_tup_lst[n].present) =>
                  /\ status[n] = "DONE"
                  /\ labeled_bio_tup_lst[n].sents # NoContent
                  /\ labeled_bio_tup_lst[n].raw_text # NoFile
        /\ \A i \in 1..Len(fmtCalls) : \A n \in TxtNames :
              fmtCalls[i].labeled_bio_tup_lst[n].present =>
                  /\ fmtCalls[i].labeled_bio_tup_lst[n].sents # NoContent
                  /\ fmtCalls[i].labeled_bio_tup_lst[n].raw_text # NoFile

\* C10: with use_bio, distinct input files that were written have distinct
\* BIO output paths, and at the end of the run there are as many BIO files
\* as DONE files.
C10_DistinctOutputs ==
    args.use_bio =>
        /\ \A n, m \in Done : n # m => Ofn(n) # Ofn(m)
        /\ pc = "done" => Cardinality(BioFiles) = Cardinality(Done)
====
